---- MODULE Spec2Model ----
(***************************************************************************)
(* State-machine model of the self-healing control loop                    *)
(* (src/src/healing/healing-system.ts), the deployment state machine       *)
(* (src/src/deployment/deployment-manager.ts), the test orchestrator       *)
(* (src/src/testing/testing-engine.ts) and the framework's event handlers  *)
(* (src/src/index.ts).                                                     *)
(*                                                                         *)
(* Every async method is cut at its awaits: one action is the synchronous  *)
(* run of code between two awaits (JavaScript runs it to completion), and  *)
(* several calls of the same method may be in flight at once, because the  *)
(* classes keep no lock: the event handlers of src/src/index.ts call       *)
(* healApp, fixError and deploy without waiting for earlier calls.         *)
(***************************************************************************)
EXTENDS Integers, Sequences, FiniteSets, TLC

\* ------------------------------------------------------------------ bounds
\* Date.now() takes the values 0..MaxClock.
MaxClock == 1
\* analyzeApp returns at most MaxErrors errors.
MaxErrors == 2
\* A fix suggested by the reasoning service holds at most MaxChanges changes.
MaxChanges == 1
\* fixError is entered at most MaxAttempts times in one behaviour, from sweeps
\* and from outside together.
MaxAttempts == 2
\* deploy is entered at most MaxDeploys times in one behaviour.
MaxDeploys == 2
\* A test runner reports at most MaxCases cases.
MaxCases == 2
\* At most MaxTimers healing-loop intervals are set at a time.
MaxTimers == 2
\* At most MaxTicks ticks of the healing loop reach processAllHealingQueues.
MaxTicks == 2
\* The framework receives at most MaxCalls calls and events from outside.
MaxCalls == 2
\* At most MaxTasks framework calls are in flight at a time.
MaxTasks == 3
\* An automatic deployment is followed through MaxChain generations.
MaxChain == 2

\* The calls that may be in flight at the same time.
Callers == {"c1", "c2"}

\* --------------------------------------------------------- the file system
\* One application: workspace/apps/<app.id> and workspace/backups/<app.id>/*.
Files == {"a.ts"}
Absent == "absent"
Contents == {"old", "new"}

EmptyFiles == [f \in Files |-> Absent]
\* A directory that does not exist.
NoDir == [exists |-> FALSE, files |-> EmptyFiles]
Dirs == [exists : {TRUE}, files : [Files -> Contents \cup {Absent}]] \cup {NoDir}

\* fs.ensureDir(dir)
ensureDir(dir) == [dir EXCEPT !.exists = TRUE]

\* fs.copy(src, dst) for an existing src: every file of src is written into
\* dst (overwrite is the default); a file dst already holds and src does not
\* stays in dst.
MergeCopy(src, dst) ==
  [exists |-> TRUE,
   files  |-> [f \in Files |-> IF src.files[f] # Absent THEN src.files[f] ELSE dst.files[f]]]

fsCopy(src, dst) == MergeCopy(src, dst)

\* ------------------------------------------------------------- data types
Severities == {"low", "medium", "high", "critical"}
\* The severities the analyzers produce: ESLint high/medium, tsc high,
\* npm audit critical/high/medium.
AnalyzerSeverities == {"medium", "high", "critical"}

ErrorInfo(sev) == [severity |-> sev, fix_attempted |-> FALSE, fix_successful |-> FALSE]

ChangeTypes == {"create", "update", "delete"}
FileChange == [file : Files, type : ChangeTypes]

SeqsUpTo(S, n) == UNION {[1..k -> S] : k \in 0..n}

\* The config the framework was constructed with.
Configs == [rollbackThreshold : {0, 2}]

VARIABLES
  now,            \* the last value Date.now() returned
  config,         \* FrameworkConfig.healing
  appDir,         \* the working tree workspace/apps/<app.id>
  backupDirs,     \* workspace/backups/<app.id>/backup-<t>, by t
  backupHistory,  \* HealingSystem.backupHistory.get(app.id)
  healingQueue,   \* HealingSystem.healingQueue: the call whose error list is queued
  attempts,       \* number of fixError calls entered or queued so far
  call,           \* the frame of each healApp / fixError call in flight
  deployment,     \* FrameworkConfig.deployment
  deploys,        \* number of deploy calls so far
  deployments,    \* the DeploymentResult and position of each deploy call
  testing,        \* FrameworkConfig.testing
  run,            \* the runAllTests call: its position and its suites
  isRunning,      \* HealingSystem.isRunning
  timers,         \* number of healing-loop intervals set and not cleared
  ticks,          \* number of ticks that went on to processAllHealingQueues
  frameworkConfig,\* the flags of FrameworkConfig that src/src/index.ts reads
  calls,          \* number of calls and events the framework received so far
  tasks           \* the runTests, deployApp and handleAppError calls in flight

healVars == <<now, config, appDir, backupDirs, backupHistory, healingQueue, attempts, call>>

deployVars == <<deployment, deploys, deployments>>

testVars == <<testing, run>>

loopVars == <<isRunning, timers, ticks>>

frameworkVars == <<frameworkConfig, calls, tasks>>

nonHealVars == <<deployVars, testVars, loopVars, frameworkVars>>

nonDeployVars == <<healVars, testVars, loopVars, frameworkVars>>

nonTestVars == <<healVars, deployVars, loopVars, frameworkVars>>

componentVars == <<healVars, deployVars, testVars, loopVars>>

NoQueue == "none"

\* ------------------------------------------------------------ call frames
InitialTree == [exists |-> TRUE, files |-> [f \in Files |-> "old"]]

IdleFrame ==
  [pc |-> "idle", entry |-> "none", errors |-> <<>>, idx |-> 0,
   backup_id |-> 0, changes |-> <<>>,
   applied |-> FALSE, tested |-> FALSE,
   success |-> FALSE, testPassed |-> FALSE,
   restoring |-> "none", ret |-> "none",
   \* history variables, read only by the properties
   synthesized |-> "none", restores |-> 0, backedUp |-> FALSE,
   treeAtBackup |-> NoDir, treeAtApply |-> NoDir, treeAtRestore |-> NoDir,
   fixCalls |-> 0, emitted |-> 0, caught |-> 0]

\* processHealingQueue's gate (healing-system.ts:798). The first reading also
\* lets medium through, and C3 tells the two apart.
IsActionable_notLow(sev) == sev # "low"

IsActionable(sev) == sev = "critical" \/ sev = "high"

\* The index of the first error at or after position i that passes the gate,
\* or 0: the for loop runs over the errors it skips without an await.
RECURSIVE NextActionable(_, _)
NextActionable(errors, i) ==
  IF i > Len(errors) THEN 0
  ELSE IF IsActionable(errors[i].severity) THEN i
  ELSE NextActionable(errors, i + 1)

\* The actionable errors of a list: each is one fixError call of the sweep.
Actionable(errors) == {i \in 1..Len(errors) : IsActionable(errors[i].severity)}

\* Date.now() as createBackup reads it: any value from the last one read on.
\* Nothing in the code makes the clock advance between two reads.
ClockValues == now..MaxClock

\* fixError's first synchronous stretch: createBackup computes the backup id
\* from the clock value t and awaits fs.ensureDir(backupDir).
EnterFixError(fr, i, t) ==
  [fr EXCEPT !.pc = "cb_ensureDir", !.idx = i, !.backup_id = t,
             !.changes = <<>>, !.applied = FALSE, !.tested = FALSE,
             !.success = FALSE, !.testPassed = FALSE,
             !.restoring = "none", !.ret = "none",
             !.synthesized = "none", !.restores = 0, !.backedUp = FALSE,
             !.treeAtBackup = NoDir, !.treeAtApply = NoDir, !.treeAtRestore = NoDir,
             !.fixCalls = @ + 1, !.emitted = 0]

\* fixError returns null (a return null, or the catch at healing-system.ts:148).
ReturnNull(fr) == [fr EXCEPT !.pc = "returned", !.ret = "null"]

\* fixError's catch block: whatever was thrown inside the try is logged and
\* null is returned (in the first reading the catch throws it again, and C12
\* tells the two apart).
Caught_rethrown(fr) == [fr EXCEPT !.pc = "returned", !.ret = "threw", !.caught = @ + 1]

Caught(fr) == [ReturnNull(fr) EXCEPT !.caught = @ + 1]

HealInit ==
  /\ now = 0
  /\ config \in Configs
  /\ appDir = InitialTree
  /\ backupDirs = [t \in 0..MaxClock |-> NoDir]
  /\ backupHistory = <<>>
  /\ healingQueue = NoQueue
  /\ attempts = 0
  /\ call = [c \in Callers |-> IdleFrame]

\* ------------------------------------------------------- healing: actions
\* A call that starts takes the first free frame.
FreeFrame(c) ==
  /\ call[c].pc = "idle"
  /\ c = "c2" => call["c1"].pc # "idle"

\* healApp up to `await this.analyzeApp(app)`.
HealApp(c) ==
  /\ FreeFrame(c)
  /\ call' = [call EXCEPT ![c] = [IdleFrame EXCEPT !.pc = "analyzeApp", !.entry = "healApp"]]
  /\ UNCHANGED <<now, config, appDir, backupDirs, backupHistory, healingQueue, attempts, nonHealVars>>

\* analyzeApp resolves with no error and healApp returns.
AnalyzeAppNone(c) ==
  /\ call[c].pc = "analyzeApp"
  /\ call' = [call EXCEPT ![c].pc = "healReturned"]
  /\ UNCHANGED <<now, config, appDir, backupDirs, backupHistory, healingQueue, attempts, nonHealVars>>

\* analyzeApp resolves with errors none of which passes the gate: healApp sets
\* the queue entry, processHealingQueue reads it back, runs its loop without
\* an await and deletes the entry.
AnalyzeAppSkipped(c) ==
  /\ call[c].pc = "analyzeApp"
  /\ \E sevs \in SeqsUpTo(AnalyzerSeverities, MaxErrors) :
       LET errors == [i \in 1..Len(sevs) |-> ErrorInfo(sevs[i])] IN
       /\ Len(errors) > 0
       /\ NextActionable(errors, 1) = 0
       /\ call' = [call EXCEPT ![c].errors = errors, ![c].pc = "healReturned"]
  /\ healingQueue' = NoQueue
  /\ UNCHANGED <<now, config, appDir, backupDirs, backupHistory, attempts, nonHealVars>>

\* analyzeApp resolves with an error that passes the gate: healApp sets the
\* queue entry and processHealingQueue runs up to the first await of the
\* first actionable error's fixError.
AnalyzeAppDone(c) ==
  /\ call[c].pc = "analyzeApp"
  /\ \E sevs \in SeqsUpTo(AnalyzerSeverities, MaxErrors), t \in ClockValues :
       LET errors == [i \in 1..Len(sevs) |-> ErrorInfo(sevs[i])]
           k      == NextActionable(errors, 1)
       IN /\ k # 0
          /\ attempts + Cardinality(Actionable(errors)) <= MaxAttempts
          /\ attempts' = attempts + Cardinality(Actionable(errors))
          /\ call' = [call EXCEPT ![c] = EnterFixError([@ EXCEPT !.errors = errors], k, t)]
          /\ now' = t
  /\ healingQueue' = c
  /\ UNCHANGED <<config, appDir, backupDirs, backupHistory, nonHealVars>>

\* fixError called from outside the sweep (it is a public method; index.ts
\* handleAppError calls it per app:error event), up to createBackup's ensureDir.
FixError(c) ==
  /\ FreeFrame(c)
  /\ attempts < MaxAttempts
  /\ attempts' = attempts + 1
  /\ \E sev \in Severities, t \in ClockValues :
       LET fr == [IdleFrame EXCEPT !.entry = "fixError", !.errors = <<ErrorInfo(sev)>>]
       IN /\ call' = [call EXCEPT ![c] = EnterFixError(fr, 1, t)]
          /\ now' = t
  /\ UNCHANGED <<config, appDir, backupDirs, backupHistory, healingQueue, nonHealVars>>

\* createBackup: fs.ensureDir(backupDir) resolves.
EnsureDirDone(c) ==
  /\ call[c].pc = "cb_ensureDir"
  /\ backupDirs' = [backupDirs EXCEPT ![call[c].backup_id] = ensureDir(@)]
  /\ call' = [call EXCEPT ![c].pc = "cb_copy"]
  /\ UNCHANGED <<now, config, appDir, backupHistory, healingQueue, attempts, nonHealVars>>

\* createBackup: fs.ensureDir or fs.copy rejects (the disk is full, the
\* directory cannot be written) and the throw reaches fixError's catch.
CreateBackupFails(c) ==
  /\ call[c].pc \in {"cb_ensureDir", "cb_copy"}
  /\ call' = [call EXCEPT ![c] = Caught(@)]
  /\ UNCHANGED <<now, config, appDir, backupDirs, backupHistory, healingQueue, attempts, nonHealVars>>

\* createBackup: fs.copy(appDir, backupDir) resolves; it rejects when appDir
\* does not exist.
CopyDone(c) ==
  /\ call[c].pc = "cb_copy"
  /\ IF appDir.exists
     THEN /\ backupDirs' = [backupDirs EXCEPT ![call[c].backup_id] = fsCopy(appDir, @)]
          /\ call' = [call EXCEPT ![c].pc = "cb_listFiles", ![c].treeAtBackup = appDir]
     ELSE /\ call' = [call EXCEPT ![c] = Caught(@)]
          /\ UNCHANGED backupDirs
  /\ UNCHANGED <<now, config, appDir, backupHistory, healingQueue, attempts, nonHealVars>>

\* The RollbackInfo createBackup pushes (its timestamp and file list are read
\* by nothing).
RollbackInfo(id) == [backup_id |-> id]

\* `history.push(backup)`; a createBackup that forgot the push would be the
\* first of the two, and C4 tells them apart.
PushBackup_dropped(history, backup) == history

PushBackup(history, backup) == Append(history, backup)

\* createBackup: listFiles resolves, the backup is pushed on the history and
\* returned; fixError goes on to generateFix. listFiles rejects when appDir
\* does not exist.
ListFilesDone(c) ==
  /\ call[c].pc = "cb_listFiles"
  /\ IF appDir.exists
     THEN /\ backupHistory' = PushBackup(backupHistory, RollbackInfo(call[c].backup_id))
          /\ call' = [call EXCEPT ![c].pc = "generateFix", ![c].backedUp = TRUE]
     ELSE /\ call' = [call EXCEPT ![c] = Caught(@)]
          /\ UNCHANGED backupHistory
  /\ UNCHANGED <<now, config, appDir, backupDirs, healingQueue, attempts, nonHealVars>>

\* generateFix resolves with null and fixError returns null.
GenerateFixNull(c) ==
  /\ call[c].pc = "generateFix"
  /\ call' = [call EXCEPT ![c] = [ReturnNull(@) EXCEPT !.synthesized = "null"]]
  /\ UNCHANGED <<now, config, appDir, backupDirs, backupHistory, healingQueue, attempts, nonHealVars>>

\* generateFix resolves with a fix: applyFix is called and runs up to the
\* first await of its first change (with no change it returns true at once
\* and testFix is called).
GenerateFixDone(c) ==
  /\ call[c].pc = "generateFix"
  /\ \E chs \in SeqsUpTo(FileChange, MaxChanges) :
       call' = [call EXCEPT ![c].synthesized = "fix",
                            ![c].changes = chs, ![c].treeAtApply = appDir,
                            ![c].success = (chs = <<>>),
                            ![c].pc = IF chs = <<>> THEN "testFix" ELSE "applyFix"]
  /\ UNCHANGED <<now, config, appDir, backupDirs, backupHistory, healingQueue, attempts, nonHealVars>>

\* applyFileChange (healing-system.ts:641): an update of a file that does not
\* exist throws.
ChangeThrows(ch, dir) == ch.type = "update" /\ dir.files[ch.file] = Absent

\* applyFileChange: the tree after the change.
applyFileChange(ch, dir) ==
  CASE ch.type = "create" -> [exists |-> TRUE, files |-> [dir.files EXCEPT ![ch.file] = "new"]]
    [] ch.type = "update" -> [dir EXCEPT !.files[ch.file] = "new"]
    [] ch.type = "delete" -> [dir EXCEPT !.files[ch.file] = Absent]

\* applyFix: a change throws, applyFix returns false and fixError calls
\* rollback, which awaits fs.pathExists(backupDir).
ApplyFileChangeThrows(c) ==
  /\ call[c].pc = "applyFix"
  /\ ChangeThrows(Head(call[c].changes), appDir)
  /\ call' = [call EXCEPT ![c].success = FALSE, ![c].pc = "rb_pathExists",
                          ![c].restoring = "apply", ![c].treeAtRestore = appDir]
  /\ UNCHANGED <<now, config, appDir, backupDirs, backupHistory, healingQueue, attempts, nonHealVars>>

\* applyFix: one change is applied; after the last one applyFix returns true
\* and fixError calls testFix.
ApplyFileChangeDone(c) ==
  /\ call[c].pc = "applyFix"
  /\ ~ChangeThrows(Head(call[c].changes), appDir)
  /\ appDir' = applyFileChange(Head(call[c].changes), appDir)
  /\ call' = [call EXCEPT ![c].changes = Tail(@),
                          ![c].success = (Tail(call[c].changes) = <<>>),
                          ![c].pc = IF Tail(call[c].changes) = <<>>
                                    THEN "testFix" ELSE "applyFix"]
  /\ UNCHANGED <<now, config, backupDirs, backupHistory, healingQueue, attempts, nonHealVars>>

\* What testFix may return (with config.testing.autoFix off it returns true
\* without running anything).
TestFixResults == BOOLEAN

\* fixError's `!testPassed && this.config.healing.rollbackThreshold > 0` (the
\* first reading drops the test of the threshold, and C14 tells the two
\* apart).
RollsBack_anyThreshold(testPassed) == ~testPassed

RollsBack(testPassed) == ~testPassed /\ config.rollbackThreshold > 0

\* error.fix_successful = success && testPassed (the first reading negates
\* the test result, and C5 tells the two apart).
FixSuccessful_untested(success, testPassed) == success /\ ~testPassed

FixSuccessful(success, testPassed) == success /\ testPassed

\* fixError keeps the fix (healing-system.ts:134-146) and emits fix:applied
\* (the first reading leaves out `error.fix_attempted = true`, and C11 tells
\* the two apart).
KeepFix_unattempted(fr, testPassed) ==
  [fr EXCEPT !.testPassed = testPassed, !.applied = TRUE, !.tested = testPassed,
             !.errors[fr.idx].fix_successful = FixSuccessful(fr.success, testPassed),
             !.emitted = @ + 1,
             !.ret = "fix", !.pc = "returned"]

KeepFix(fr, testPassed) ==
  [fr EXCEPT !.testPassed = testPassed, !.applied = TRUE, !.tested = testPassed,
             !.errors[fr.idx].fix_attempted = TRUE,
             !.errors[fr.idx].fix_successful = FixSuccessful(fr.success, testPassed),
             !.emitted = @ + 1,
             !.ret = "fix", !.pc = "returned"]

\* testFix resolves and fixError keeps the fix.
TestFixKeep(c) ==
  /\ call[c].pc = "testFix"
  /\ \E testPassed \in TestFixResults :
       /\ ~RollsBack(testPassed)
       /\ call' = [call EXCEPT ![c] = KeepFix(@, testPassed)]
  /\ UNCHANGED <<now, config, appDir, backupDirs, backupHistory, healingQueue, attempts, nonHealVars>>

\* testFix resolves with false and fixError calls rollback, which awaits
\* fs.pathExists(backupDir).
TestFixRollback(c) ==
  /\ call[c].pc = "testFix"
  /\ \E testPassed \in TestFixResults :
       /\ RollsBack(testPassed)
       /\ call' = [call EXCEPT ![c].testPassed = testPassed, ![c].pc = "rb_pathExists",
                               ![c].restoring = "test", ![c].treeAtRestore = appDir]
  /\ UNCHANGED <<now, config, appDir, backupDirs, backupHistory, healingQueue, attempts, nonHealVars>>

\* rollback: fs.pathExists(backupDir) resolves with true and fs.remove(appDir)
\* is awaited. (No code removes a backup directory, so a backup fixError made
\* is always found.)
RollbackPathExists(c) ==
  /\ call[c].pc = "rb_pathExists"
  /\ backupDirs[call[c].backup_id].exists
  /\ call' = [call EXCEPT ![c].pc = "rb_remove"]
  /\ UNCHANGED <<now, config, appDir, backupDirs, backupHistory, healingQueue, attempts, nonHealVars>>

\* rollback: fs.remove(appDir) resolves.
RollbackRemoveDone(c) ==
  /\ call[c].pc = "rb_remove"
  /\ appDir' = NoDir
  /\ call' = [call EXCEPT ![c].pc = "rb_copy"]
  /\ UNCHANGED <<now, config, backupDirs, backupHistory, healingQueue, attempts, nonHealVars>>

\* rollback throws: the backup directory is not found, or fs.remove or fs.copy
\* rejects and leaves the tree as the steps before left it. rollback logs and
\* throws again, and fixError's catch returns null.
RollbackFails(c) ==
  /\ call[c].pc \in {"rb_pathExists", "rb_remove", "rb_copy"}
  /\ call' = [call EXCEPT ![c] = Caught([@ EXCEPT !.treeAtRestore = NoDir])]
  /\ UNCHANGED <<now, config, appDir, backupDirs, backupHistory, healingQueue, attempts, nonHealVars>>

\* fixError after rollback returned: null after a failed apply, the fix with
\* applied = false after a failed validation (the first reading emits
\* fix:applied here too, and C15 tells the two apart).
AfterRollback_notified(fr) ==
  IF fr.restoring = "apply"
  THEN [fr EXCEPT !.restores = @ + 1, !.emitted = @ + 1, !.ret = "null", !.pc = "returned",
                  !.treeAtRestore = NoDir]
  ELSE [fr EXCEPT !.restores = @ + 1, !.emitted = @ + 1, !.applied = FALSE, !.ret = "fix",
                  !.pc = "returned", !.treeAtRestore = NoDir]

AfterRollback(fr) ==
  IF fr.restoring = "apply"
  THEN [fr EXCEPT !.restores = @ + 1, !.ret = "null", !.pc = "returned",
                  !.treeAtRestore = NoDir]
  ELSE [fr EXCEPT !.restores = @ + 1, !.applied = FALSE, !.ret = "fix", !.pc = "returned",
                  !.treeAtRestore = NoDir]

\* rollback: fs.copy(backupDir, appDir) resolves and fixError returns.
RollbackCopyDone(c) ==
  /\ call[c].pc = "rb_copy"
  /\ appDir' = fsCopy(backupDirs[call[c].backup_id], appDir)
  /\ call' = [call EXCEPT ![c] = AfterRollback(@)]
  /\ UNCHANGED <<now, config, backupDirs, backupHistory, healingQueue, attempts, nonHealVars>>

\* processHealingQueue after `await this.fixError(app, error)`: the loop goes
\* on to the next actionable error.
ProcessNext(c) ==
  /\ call[c].pc = "returned"
  /\ call[c].entry = "healApp"
  /\ NextActionable(call[c].errors, call[c].idx + 1) # 0
  /\ \E t \in ClockValues :
       /\ call' = [call EXCEPT ![c] =
                     EnterFixError(@, NextActionable(call[c].errors, call[c].idx + 1), t)]
       /\ now' = t
  /\ UNCHANGED <<config, appDir, backupDirs, backupHistory, healingQueue, attempts, nonHealVars>>

\* healApp's frame once processHealingQueue has returned: the locals of the
\* last fixError call are gone, the error list and the count of fixError
\* calls remain.
EndSweep(fr) ==
  [IdleFrame EXCEPT !.pc = "healReturned", !.entry = fr.entry, !.errors = fr.errors,
                    !.idx = fr.idx, !.fixCalls = fr.fixCalls, !.caught = fr.caught]

\* processHealingQueue after the last actionable error: the loop ends, the
\* queue entry is deleted and healApp returns.
ProcessEnd(c) ==
  /\ call[c].pc = "returned"
  /\ call[c].entry = "healApp"
  /\ NextActionable(call[c].errors, call[c].idx + 1) = 0
  /\ call' = [call EXCEPT ![c] = EndSweep(@)]
  /\ healingQueue' = NoQueue
  /\ UNCHANGED <<now, config, appDir, backupDirs, backupHistory, attempts, nonHealVars>>

\* The caller takes the result of healApp or of a fixError called directly.
CallReturns(c) ==
  /\ \/ call[c].pc = "healReturned"
     \/ call[c].pc = "returned" /\ call[c].entry = "fixError"
  /\ call' = [call EXCEPT ![c] = IdleFrame]
  /\ UNCHANGED <<now, config, appDir, backupDirs, backupHistory, healingQueue, attempts, nonHealVars>>

\* emergencyHeal: the four alert handlers only log, and its catch swallows
\* what they throw.
EmergencyHeal == UNCHANGED <<healVars, nonHealVars>>

HealNext ==
  \/ \E c \in Callers : HealApp(c)
  \/ \E c \in Callers : AnalyzeAppNone(c)
  \/ \E c \in Callers : AnalyzeAppSkipped(c)
  \/ \E c \in Callers : AnalyzeAppDone(c)
  \/ \E c \in Callers : FixError(c)
  \/ \E c \in Callers : EnsureDirDone(c)
  \/ \E c \in Callers : CreateBackupFails(c)
  \/ \E c \in Callers : CopyDone(c)
  \/ \E c \in Callers : ListFilesDone(c)
  \/ \E c \in Callers : GenerateFixNull(c)
  \/ \E c \in Callers : GenerateFixDone(c)
  \/ \E c \in Callers : ApplyFileChangeThrows(c)
  \/ \E c \in Callers : ApplyFileChangeDone(c)
  \/ \E c \in Callers : TestFixKeep(c)
  \/ \E c \in Callers : TestFixRollback(c)
  \/ \E c \in Callers : RollbackPathExists(c)
  \/ \E c \in Callers : RollbackRemoveDone(c)
  \/ \E c \in Callers : RollbackCopyDone(c)
  \/ \E c \in Callers : RollbackFails(c)
  \/ \E c \in Callers : ProcessNext(c)
  \/ \E c \in Callers : ProcessEnd(c)
  \/ \E c \in Callers : CallReturns(c)

\* ------------------------------------------------------------ healing loop
\* The healing loop after construction: not running, no interval set.
LoopInit == isRunning = FALSE /\ timers = 0 /\ ticks = 0

\* start(): a second start while running only warns; otherwise the flag is
\* set and startHealingLoop sets a new interval.
Start ==
  /\ IF isRunning
     THEN UNCHANGED <<isRunning, timers>>
     ELSE /\ timers < MaxTimers
          /\ isRunning' = TRUE
          /\ timers' = timers + 1
  /\ UNCHANGED <<ticks, healVars, deployVars, testVars, frameworkVars>>

\* stop(): a stop while not running only warns; otherwise the flag is cleared.
\* No interval is cleared here and no call in flight is touched.
Stop ==
  /\ isRunning' = FALSE
  /\ UNCHANGED <<timers, ticks, healVars, deployVars, testVars, frameworkVars>>

\* The interval callback's `if (!this.isRunning)`: whether the tick goes on to
\* processAllHealingQueues (the first reading goes on whatever the flag is,
\* and C17 tells the two apart).
TickRuns_always(running) == TRUE

TickRuns(running) == running

\* processAllHealingQueues: its body is two comments.
processAllHealingQueues == UNCHANGED <<healVars>>

\* One interval fires: with the flag cleared the interval clears itself and
\* the callback returns; with the flag set it awaits processAllHealingQueues.
Tick ==
  /\ timers > 0
  /\ IF TickRuns(isRunning)
     THEN /\ ticks < MaxTicks
          /\ ticks' = ticks + 1
          /\ processAllHealingQueues
          /\ UNCHANGED timers
     ELSE /\ timers' = timers - 1
          /\ UNCHANGED <<ticks, healVars>>
  /\ UNCHANGED <<isRunning, deployVars, testVars, frameworkVars>>

\* The healing system with its loop: calls of healApp, fixError and
\* emergencyHeal one after the other, start and stop, and ticks in between
\* the steps of the call in flight.
LoopNext ==
  \/ Start
  \/ Stop
  \/ Tick
  \/ EmergencyHeal
  \/ HealApp("c1")
  \/ AnalyzeAppNone("c1")
  \/ AnalyzeAppSkipped("c1")
  \/ AnalyzeAppDone("c1")
  \/ FixError("c1")
  \/ EnsureDirDone("c1")
  \/ CreateBackupFails("c1")
  \/ CopyDone("c1")
  \/ ListFilesDone("c1")
  \/ GenerateFixNull("c1")
  \/ GenerateFixDone("c1")
  \/ ApplyFileChangeThrows("c1")
  \/ ApplyFileChangeDone("c1")
  \/ TestFixKeep("c1")
  \/ TestFixRollback("c1")
  \/ RollbackPathExists("c1")
  \/ RollbackRemoveDone("c1")
  \/ RollbackCopyDone("c1")
  \/ RollbackFails("c1")
  \/ ProcessNext("c1")
  \/ ProcessEnd("c1")
  \/ CallReturns("c1")

\* ======================================================= deployment manager
\* DeploymentConfig.provider, DeploymentConfig and the environments deploy
\* accepts.
Providers == {"docker", "vercel", "netlify", "aws", "gcp"}

DeploymentConfigs ==
  [provider : Providers, healthChecks : BOOLEAN, rollbackOnFailure : BOOLEAN]

Environments == {"development", "staging", "production"}

\* The deploy calls that can be in flight together.
Deployers == {"d1", "d2"}

\* A deploy call that has not started: no DeploymentResult exists yet.
NoDeployment ==
  [pc |-> "idle", environment |-> "none", status |-> "none", url |-> FALSE,
   \* history variables, read only by the properties
   providerInvoked |-> FALSE, buildFailed |-> FALSE, fatal |-> FALSE,
   rollbackAttempted |-> FALSE, startupTimedOut |-> FALSE, healthFailed |-> FALSE,
   smokeFailed |-> FALSE,
   \* DeploymentResult.logs, one tag for each line pushed, and whether
   \* DeploymentResult.duration has been assigned
   logs |-> <<>>, durationStamped |-> FALSE]

\* `deployment.logs.push(...)`: the only way the code writes to the log (the
\* first reading assigns the log, and C22 tells the two apart).
Log_replacing(d, lines) == [d EXCEPT !.logs = lines]

Log(d, lines) == [d EXCEPT !.logs = @ \o lines]

\* deploy's `this.config.deployment.rollbackOnFailure && environment !== 'development'`
\* (the first reading drops the test of the environment, and C6 tells the two
\* apart).
RollsBackOnFailure_anyEnvironment(environment) == deployment.rollbackOnFailure

RollsBackOnFailure(environment) ==
  deployment.rollbackOnFailure /\ environment # "development"

\* rollbackDeployment: it has no await and nothing in its try block throws.
rollbackDeployment(d) ==
  [Log(d, <<"Starting rollback...", "Rollback completed">>)
     EXCEPT !.status = "rolled_back", !.rollbackAttempted = TRUE]

\* deploy's catch block, up to the end of the await on rollbackDeployment.
DeployCatch(d) ==
  LET failed == [Log(d, <<"Deployment failed">>)
                   EXCEPT !.status = "failed", !.fatal = TRUE, !.pc = "finally"]
  IN IF RollsBackOnFailure(d.environment) THEN rollbackDeployment(failed) ELSE failed

\* buildApplication's catch: the build error is logged and thrown again, and
\* deploy's catch block runs (the first reading logs the error without
\* throwing it again, so that deploy goes on to the provider, and C7 tells the
\* two apart).
BuildFailed_swallowed(d) ==
  [Log(d, <<"Build failed", "Deploying...">>)
     EXCEPT !.buildFailed = TRUE, !.providerInvoked = TRUE, !.pc = "provider"]

BuildFailed(d) == DeployCatch([Log(d, <<"Build failed">>) EXCEPT !.buildFailed = TRUE])

\* deploy after runPostDeploymentChecks returned.
DeploySucceeds(d) ==
  [Log(d, <<"Deployment completed successfully">>) EXCEPT !.status = "success", !.pc = "finally"]

DeployInit ==
  /\ deployment \in DeploymentConfigs
  /\ deploys = 0
  /\ deployments = [d \in Deployers |-> NoDeployment]

\* A deploy call that starts takes the first free frame.
FreeDeployer(d) ==
  /\ deployments[d].pc = "idle"
  /\ d = "d2" => deployments["d1"].pc # "idle"

\* deploy up to the first await of runPreDeploymentChecks: the record is
\* created with status pending, registered, and set to deploying.
Deploy(d) ==
  /\ FreeDeployer(d)
  /\ deploys < MaxDeploys
  /\ deploys' = deploys + 1
  /\ \E environment \in Environments :
       deployments' = [deployments EXCEPT ![d] =
                         Log([NoDeployment EXCEPT !.pc = "preChecks", !.environment = environment,
                                                  !.status = "deploying"],
                             <<"Starting deployment", "Running pre-deployment checks...">>)]
  /\ UNCHANGED <<deployment, nonDeployVars>>

\* runPreDeploymentChecks returns and buildApplication awaits `npm run build`.
PreChecksDone(d) ==
  /\ deployments[d].pc = "preChecks"
  /\ deployments' = [deployments EXCEPT ![d] =
                       [Log(@, <<"Pre-deployment checks completed", "Building application...">>)
                          EXCEPT !.pc = "build"]]
  /\ UNCHANGED <<deployment, deploys, nonDeployVars>>

\* runPreDeploymentChecks throws: a required file is missing.
PreChecksFail(d) ==
  /\ deployments[d].pc = "preChecks"
  /\ deployments' = [deployments EXCEPT ![d] = DeployCatch(@)]
  /\ UNCHANGED <<deployment, deploys, nonDeployVars>>

\* buildApplication returns and the switch calls the provider's routine.
BuildDone(d) ==
  /\ deployments[d].pc = "build"
  /\ deployment.provider # "gcp"
  /\ deployments' = [deployments EXCEPT ![d] =
                       [Log(@, <<"Build completed successfully", "Deploying...">>)
                          EXCEPT !.providerInvoked = TRUE, !.pc = "provider"]]
  /\ UNCHANGED <<deployment, deploys, nonDeployVars>>

\* buildApplication returns and the switch has no case for the provider: its
\* default branch throws.
BuildDoneUnsupported(d) ==
  /\ deployments[d].pc = "build"
  /\ deployment.provider = "gcp"
  /\ deployments' = [deployments EXCEPT ![d] =
                       DeployCatch(Log(@, <<"Build completed successfully">>))]
  /\ UNCHANGED <<deployment, deploys, nonDeployVars>>

\* `npm run build` fails.
BuildFails(d) ==
  /\ deployments[d].pc = "build"
  /\ deployments' = [deployments EXCEPT ![d] = BuildFailed(@)]
  /\ UNCHANGED <<deployment, deploys, nonDeployVars>>

\* Whether the provider's routine leaves deployment.url set: deployWithDocker
\* always sets it, deployWithVercel and deployWithNetlify only when the CLI's
\* output holds a URL.
ProviderUrls(provider) == IF provider = "docker" THEN {TRUE} ELSE BOOLEAN

\* The provider's routine returns; runPostDeploymentChecks returns at once
\* when there is no URL, and otherwise waitForApplication polls the URL.
ProviderDone(d) ==
  /\ deployments[d].pc = "provider"
  /\ deployment.provider \in {"docker", "vercel", "netlify"}
  /\ \E url \in ProviderUrls(deployment.provider) :
       deployments' = [deployments EXCEPT ![d] =
                         IF url
                         THEN [Log(@, <<"Provider deployment completed",
                                        "Running post-deployment checks...",
                                        "Waiting for application to start...">>)
                                 EXCEPT !.url = TRUE, !.pc = "waitForApplication"]
                         ELSE DeploySucceeds(Log(@, <<"Running post-deployment checks...",
                                                      "No deployment URL available">>))]
  /\ UNCHANGED <<deployment, deploys, nonDeployVars>>

\* The provider's routine throws (deployWithAWS always does).
ProviderFails(d) ==
  /\ deployments[d].pc = "provider"
  /\ deployments' = [deployments EXCEPT ![d] =
                       DeployCatch(Log(@, <<"Provider deployment failed">>))]
  /\ UNCHANGED <<deployment, deploys, nonDeployVars>>

\* waitForApplication: the URL answers.
WaitForApplicationDone(d) ==
  /\ deployments[d].pc = "waitForApplication"
  /\ deployments' = [deployments EXCEPT ![d] =
                       IF deployment.healthChecks
                       THEN [Log(@, <<"Application is responding", "Running health checks...">>)
                               EXCEPT !.pc = "healthChecks"]
                       ELSE [Log(@, <<"Application is responding", "Running smoke tests...">>)
                               EXCEPT !.pc = "smokeTests"]]
  /\ UNCHANGED <<deployment, deploys, nonDeployVars>>

\* waitForApplication's throw after the polling loop: it does not look at the
\* environment, and neither runPostDeploymentChecks nor deploy's try block
\* catches it before deploy's catch block.
StartupTimeout(d) == DeployCatch([d EXCEPT !.startupTimedOut = TRUE])

\* waitForApplication: the URL has not answered within maxWaitTime and it
\* throws, in every environment.
WaitForApplicationTimeout(d) ==
  /\ deployments[d].pc = "waitForApplication"
  /\ deployments' = [deployments EXCEPT ![d] = StartupTimeout(@)]
  /\ UNCHANGED <<deployment, deploys, nonDeployVars>>

\* runHealthChecks returns: whether an endpoint answered with an error, or
\* not at all, it only logs.
HealthChecksDone(d) ==
  /\ deployments[d].pc = "healthChecks"
  /\ \E failed \in BOOLEAN :
       deployments' = [deployments EXCEPT ![d] =
                         [Log(@, <<IF failed THEN "Health check failed" ELSE "Health check passed",
                                   "Running smoke tests...">>)
                            EXCEPT !.healthFailed = failed, !.pc = "smokeTests"]]
  /\ UNCHANGED <<deployment, deploys, nonDeployVars>>

\* runSmokeTests returns: the script passed or there is none.
SmokeTestsDone(d) ==
  /\ deployments[d].pc = "smokeTests"
  /\ deployments' = [deployments EXCEPT ![d] =
                       DeploySucceeds(Log(@, <<"Smoke tests passed",
                                               "Post-deployment checks completed">>))]
  /\ UNCHANGED <<deployment, deploys, nonDeployVars>>

\* runSmokeTests' catch: `if (deployment.environment === 'production') throw error`.
SmokeFailureFatal_anyEnvironment(environment) == TRUE

SmokeFailureFatal(environment) == environment = "production"

\* The smoke test script fails: runSmokeTests throws in production only.
SmokeTestsFail(d) ==
  /\ deployments[d].pc = "smokeTests"
  /\ deployments' = [deployments EXCEPT ![d] =
                       LET failed == [Log(@, <<"Smoke tests failed">>) EXCEPT !.smokeFailed = TRUE]
                       IN IF SmokeFailureFatal(@.environment)
                          THEN DeployCatch(failed)
                          ELSE DeploySucceeds(Log(failed, <<"Post-deployment checks completed">>))]
  /\ UNCHANGED <<deployment, deploys, nonDeployVars>>

\* deploy's finally block and its return.
DeployFinally(d) ==
  /\ deployments[d].pc = "finally"
  /\ deployments' = [deployments EXCEPT ![d].durationStamped = TRUE, ![d].pc = "returned"]
  /\ UNCHANGED <<deployment, deploys, nonDeployVars>>

\* The caller takes the returned record.
DeployReturns(d) ==
  /\ deployments[d].pc = "returned"
  /\ deployments' = [deployments EXCEPT ![d] = NoDeployment]
  /\ UNCHANGED <<deployment, deploys, nonDeployVars>>

DeployNext ==
  \/ \E d \in Deployers : Deploy(d)
  \/ \E d \in Deployers : PreChecksDone(d)
  \/ \E d \in Deployers : PreChecksFail(d)
  \/ \E d \in Deployers : BuildDone(d)
  \/ \E d \in Deployers : BuildDoneUnsupported(d)
  \/ \E d \in Deployers : BuildFails(d)
  \/ \E d \in Deployers : ProviderDone(d)
  \/ \E d \in Deployers : ProviderFails(d)
  \/ \E d \in Deployers : WaitForApplicationDone(d)
  \/ \E d \in Deployers : WaitForApplicationTimeout(d)
  \/ \E d \in Deployers : HealthChecksDone(d)
  \/ \E d \in Deployers : SmokeTestsDone(d)
  \/ \E d \in Deployers : SmokeTestsFail(d)
  \/ \E d \in Deployers : DeployFinally(d)
  \/ \E d \in Deployers : DeployReturns(d)

\* ============================================================ testing engine
\* The categories in the order runAllTests runs them, and the flag of
\* TestingConfig that enables each.
Categories == <<"unit", "integration", "e2e", "performance", "accessibility", "visual">>

TestingFlags ==
  [unit |-> "unitTests", integration |-> "integrationTests", e2e |-> "e2eTests",
   performance |-> "performanceTesting", accessibility |-> "accessibility",
   visual |-> "visualRegression"]

TestingConfigs ==
  [unitTests : BOOLEAN, integrationTests : BOOLEAN, e2eTests : BOOLEAN,
   performanceTesting : BOOLEAN, accessibility : BOOLEAN, visualRegression : BOOLEAN]

CaseStatuses == {"passed", "failed"}

\* No runAllTests call in flight.
NoRun ==
  [pc |-> "idle", cat |-> 0, tests |-> <<>>, testSuites |-> <<>>,
   browser |-> FALSE, apps |-> 0, threw |-> FALSE]

IsEnabled(k) == testing[TestingFlags[Categories[k]]]

\* The first enabled category from position k on, or 0.
RECURSIVE NextEnabled(_)
NextEnabled(k) ==
  IF k > Len(Categories) THEN 0
  ELSE IF IsEnabled(k) THEN k
  ELSE NextEnabled(k + 1)

\* The first await of each category's run function.
FirstStep(k) ==
  CASE Categories[k] = "unit" -> "generateUnitTests"
    [] Categories[k] = "e2e"  -> "launchBrowser"
    [] OTHER                  -> "startApplication"

\* runAllTests moves on to the category at position k and on from there to
\* the finally block, with a new empty suite.
EnterCategory(r, k) ==
  IF NextEnabled(k) = 0
  THEN [r EXCEPT !.pc = "cleanup", !.cat = 0, !.tests = <<>>]
  ELSE [r EXCEPT !.pc = FirstStep(NextEnabled(k)), !.cat = NextEnabled(k), !.tests = <<>>]

\* `testSuite.tests.every(test => test.status === 'passed') ? 'passed' : 'failed'`
EveryPassed(tests) == \A i \in 1..Len(tests) : tests[i] = "passed"

SuiteStatus(tests) == IF EveryPassed(tests) THEN "passed" ELSE "failed"

TestSuite(k, status, tests) == [category |-> Categories[k], status |-> status, tests |-> tests]

\* The category's run function returns its suite and runAllTests pushes it.
PushSuite(r, status, tests) ==
  EnterCategory([r EXCEPT !.testSuites = Append(@, TestSuite(r.cat, status, tests))],
                r.cat + 1)

\* The catch block of runUnitTests, runIntegrationTests and runE2ETests pushes
\* a failed case; that of runPerformanceTests, runAccessibilityTests and
\* runVisualRegressionTests only sets the status.
CatchPushesCase(category) == category \in {"unit", "integration", "e2e"}

\* The catch block of the category's run function.
CategoryCatch(r) ==
  PushSuite(r, "failed",
            IF CatchPushesCase(Categories[r.cat]) THEN Append(r.tests, "failed") ELSE r.tests)

\* The cases the category's checks add once the server answers: every helper
\* is a stub that returns no case or one passed case.
StubCases(category) ==
  CASE category = "performance"   -> <<"passed">>
    [] category = "accessibility" -> <<"passed", "passed", "passed">>
    [] OTHER                      -> <<>>

\* The status the category's try block sets: runVisualRegressionTests sets
\* passed whatever the cases are.
TryStatus(category, tests) ==
  IF category = "visual" THEN "passed" ELSE SuiteStatus(tests)

TestInit ==
  /\ testing \in TestingConfigs
  /\ run = NoRun

\* runAllTests up to the first await of the first enabled category.
RunAllTests ==
  /\ run.pc = "idle"
  /\ run' = EnterCategory(run, 1)
  /\ UNCHANGED <<testing, nonTestVars>>

\* runUnitTests: generateUnitTests returns and runJestTests runs in frontend.
GenerateUnitTestsDone ==
  /\ run.pc = "generateUnitTests"
  /\ run' = [run EXCEPT !.pc = "jestFrontend"]
  /\ UNCHANGED <<testing, nonTestVars>>

\* runUnitTests: generateUnitTests throws (a test file cannot be written).
GenerateUnitTestsFails ==
  /\ run.pc = "generateUnitTests"
  /\ run' = CategoryCatch(run)
  /\ UNCHANGED <<testing, nonTestVars>>

\* runJestTests returns: the cases of the report, or one failed case when the
\* run or the parse of its output threw. After the backend run the suite's
\* status is computed and the suite returned.
RunJestTestsDone ==
  /\ run.pc \in {"jestFrontend", "jestBackend"}
  /\ \E cases \in SeqsUpTo(CaseStatuses, MaxCases) :
       LET tests == run.tests \o cases IN
       run' = IF run.pc = "jestFrontend"
              THEN [run EXCEPT !.tests = tests, !.pc = "jestBackend"]
              ELSE PushSuite(run, SuiteStatus(tests), tests)
  /\ UNCHANGED <<testing, nonTestVars>>

\* puppeteer.launch resolves: at the start of runE2ETests, and after the
\* server answered in runAccessibilityTests and runVisualRegressionTests when
\* no browser is open.
LaunchBrowserDone ==
  /\ run.pc = "launchBrowser"
  /\ run' = [run EXCEPT !.browser = TRUE,
                        !.pc = IF Categories[run.cat] = "e2e" THEN "startApplication"
                               ELSE "checks"]
  /\ UNCHANGED <<testing, nonTestVars>>

\* puppeteer.launch rejects.
LaunchBrowserFails ==
  /\ run.pc = "launchBrowser"
  /\ run' = CategoryCatch(run)
  /\ UNCHANGED <<testing, nonTestVars>>

\* startApplication resolves with the two spawned processes.
StartApplicationDone ==
  /\ run.pc = "startApplication"
  /\ run' = [run EXCEPT !.apps = @ + 1, !.pc = "waitForServer"]
  /\ UNCHANGED <<testing, nonTestVars>>

\* waitForServer returns: the server answered.
WaitForServerDone ==
  /\ run.pc = "waitForServer"
  /\ run' = [run EXCEPT !.pc = IF Categories[run.cat] \in {"accessibility", "visual"}
                                  /\ ~run.browser
                               THEN "launchBrowser" ELSE "checks"]
  /\ UNCHANGED <<testing, nonTestVars>>

\* waitForServer throws: the server did not answer within the timeout. The
\* catch block does not stop the application.
WaitForServerTimeout ==
  /\ run.pc = "waitForServer"
  /\ run' = CategoryCatch(run)
  /\ UNCHANGED <<testing, nonTestVars>>

\* The category's checks return, the status is set, the application is
\* stopped and the suite returned.
ChecksDone ==
  /\ run.pc = "checks"
  /\ LET tests == run.tests \o StubCases(Categories[run.cat]) IN
     run' = PushSuite([run EXCEPT !.apps = @ - 1],
                      TryStatus(Categories[run.cat], tests), tests)
  /\ UNCHANGED <<testing, nonTestVars>>

\* runAccessibilityTests: browser.newPage rejects.
NewPageFails ==
  /\ run.pc = "checks"
  /\ Categories[run.cat] = "accessibility"
  /\ run' = CategoryCatch(run)
  /\ UNCHANGED <<testing, nonTestVars>>

\* runAllTests' finally block: cleanup closes the browser if one is open, and
\* runAllTests returns the suites.
CleanupDone ==
  /\ run.pc = "cleanup"
  /\ run' = [run EXCEPT !.browser = FALSE, !.pc = "returned"]
  /\ UNCHANGED <<testing, nonTestVars>>

\* cleanup: browser.close rejects and runAllTests rejects with it.
CleanupFails ==
  /\ run.pc = "cleanup"
  /\ run.browser
  /\ run' = [run EXCEPT !.threw = TRUE, !.pc = "returned"]
  /\ UNCHANGED <<testing, nonTestVars>>

\* The caller takes the result; the engine keeps its browser field.
TestsReturn ==
  /\ run.pc = "returned"
  /\ run' = [NoRun EXCEPT !.browser = run.browser]
  /\ UNCHANGED <<testing, nonTestVars>>

TestNext ==
  \/ RunAllTests
  \/ GenerateUnitTestsDone
  \/ GenerateUnitTestsFails
  \/ RunJestTestsDone
  \/ LaunchBrowserDone
  \/ LaunchBrowserFails
  \/ StartApplicationDone
  \/ WaitForServerDone
  \/ WaitForServerTimeout
  \/ ChecksDone
  \/ NewPageFails
  \/ CleanupDone
  \/ CleanupFails
  \/ TestsReturn

\* ================================================================ framework
\* The event handlers of src/src/index.ts. The components are seen from
\* outside: runAllTests resolves with suites that hold a failed one or not,
\* healApp resolves having kept a validated fix or not, fixError resolves
\* with null or a fix, deploy resolves with a terminal status. emit runs the
\* listeners synchronously, each up to its first await, so an emit and the
\* start of what its handler calls are one step.
FrameworkConfigs ==
  [autoFix : BOOLEAN, unitTests : BOOLEAN, integrationTests : BOOLEAN,
   autoScale : BOOLEAN, enableRealTime : BOOLEAN]

TaskIds == 1..MaxTasks

\* What fixError resolves with: null, the kept fix (tested as validation
\* went) or the fix rolled back after a failed validation.
NoFix == [applied |-> FALSE, tested |-> FALSE, null |-> TRUE]

FixResults ==
  {NoFix,
   [applied |-> TRUE, tested |-> TRUE, null |-> FALSE],
   [applied |-> TRUE, tested |-> FALSE, null |-> FALSE],
   [applied |-> FALSE, tested |-> FALSE, null |-> FALSE]}

DeploymentStatuses == {"success", "failed", "rolled_back"}

\* A free slot: no call in flight in it.
NoTask ==
  [kind |-> "none", pc |-> "idle", environment |-> "none", hasFailures |-> FALSE,
   \* history variables, read only by the properties: the number of automatic
   \* deployments that led to this call, whether the call's healing kept a
   \* fix that is applied and tested, whether handleAppFixed called runTests
   \* for it, and whether the call threw
   chain |-> 0, keptTested |-> FALSE, rerun |-> FALSE, threw |-> FALSE]

FrameworkInit ==
  /\ frameworkConfig \in FrameworkConfigs
  /\ calls = 0
  /\ tasks = [t \in TaskIds |-> NoTask]

\* A call that starts takes the first free slot.
FreeTask(t) ==
  /\ tasks[t].kind = "none"
  /\ \A u \in TaskIds : u < t => tasks[u].kind # "none"

\* deployApp's `this.config.testing.unitTests || this.config.testing.integrationTests`.
TestsBeforeDeploy == frameworkConfig.unitTests \/ frameworkConfig.integrationTests

\* runTests up to `await this.testingEngine.runAllTests(app)`.
runTests(chain) == [NoTask EXCEPT !.kind = "runTests", !.pc = "runAllTests", !.chain = chain]

\* deployApp up to its first await: that of runTests when a test flag is set,
\* that of deploy otherwise.
deployApp(environment, chain) ==
  [NoTask EXCEPT !.kind = "deployApp", !.environment = environment, !.chain = chain,
                 !.pc = IF TestsBeforeDeploy THEN "runAllTests" ELSE "deploy"]

\* handleTestCompleted's `passedSuites === totalSuites && this.config.deployment.autoScale`:
\* a returned suite is passed or failed.
AutoDeploys(hasFailures) == ~hasFailures /\ frameworkConfig.autoScale

\* runTests' `hasFailures && this.config.healing.autoFix`.
HealsAfterTests(hasFailures) == hasFailures /\ frameworkConfig.autoFix

\* handleAppError's `this.config.healing.autoFix && error.severity !== 'low'`.
FixesOnError(sev) == frameworkConfig.autoFix /\ sev # "low"

\* handleAppFixed's `fix.tested && this.config.testing.unitTests`.
RerunsTests(fix) == fix.tested /\ frameworkConfig.unitTests

\* runTests emits test:completed and returns: handleTestCompleted starts
\* deployApp(app.id, 'staging') when every suite passed and autoScale is
\* set, and the call in slot t goes on: deployApp to its await of deploy,
\* a runTests called alone to its end.
EmitTestCompleted(t, fr) ==
  LET after == [fr EXCEPT !.pc = IF fr.kind = "deployApp" THEN "deploy" ELSE "done"]
  IN IF AutoDeploys(fr.hasFailures)
     THEN /\ fr.chain < MaxChain
          /\ \E u \in TaskIds \ {t} :
               /\ FreeTask(u)
               /\ tasks' = [tasks EXCEPT ![t] = after,
                                         ![u] = deployApp("staging", fr.chain + 1)]
     ELSE tasks' = [tasks EXCEPT ![t] = after]

\* runTests(appId) called from outside (createApp calls it as well).
RunTests(t) ==
  /\ FreeTask(t)
  /\ calls < MaxCalls
  /\ calls' = calls + 1
  /\ tasks' = [tasks EXCEPT ![t] = runTests(0)]
  /\ UNCHANGED <<frameworkConfig, componentVars>>

\* deployApp(appId, environment) called from outside.
DeployApp(t) ==
  /\ FreeTask(t)
  /\ calls < MaxCalls
  /\ calls' = calls + 1
  /\ \E environment \in Environments :
       tasks' = [tasks EXCEPT ![t] = deployApp(environment, 0)]
  /\ UNCHANGED <<frameworkConfig, componentVars>>

\* An app:error event: handleAppError awaits fixError, or only logs.
AppError(t) ==
  /\ FreeTask(t)
  /\ calls < MaxCalls
  /\ calls' = calls + 1
  /\ \E sev \in Severities :
       tasks' = IF FixesOnError(sev)
                THEN [tasks EXCEPT ![t] = [NoTask EXCEPT !.kind = "handleAppError",
                                                         !.pc = "fixError"]]
                ELSE tasks
  /\ UNCHANGED <<frameworkConfig, componentVars>>

\* runAllTests resolves: runTests awaits healApp when a suite failed and
\* autoFix is set, and emits test:completed otherwise.
RunAllTestsDone(t) ==
  /\ tasks[t].pc = "runAllTests"
  /\ \E hasFailures \in BOOLEAN :
       LET fr == [tasks[t] EXCEPT !.hasFailures = hasFailures] IN
       IF HealsAfterTests(hasFailures)
       THEN tasks' = [tasks EXCEPT ![t] = [fr EXCEPT !.pc = "healApp"]]
       ELSE EmitTestCompleted(t, fr)
  /\ UNCHANGED <<frameworkConfig, calls, componentVars>>

\* healApp resolves, having kept an applied and tested fix or not (the
\* healing system emits fix:applied on itself, where nothing listens), and
\* runTests emits test:completed with the suites of the run before it.
HealAppDone(t) ==
  /\ tasks[t].pc = "healApp"
  /\ \E kept \in BOOLEAN :
       EmitTestCompleted(t, [tasks[t] EXCEPT !.keptTested = kept,
                                             !.rerun = IF kept THEN FALSE ELSE @])
  /\ UNCHANGED <<frameworkConfig, calls, componentVars>>

\* runAllTests or healApp rejects: runTests logs and throws again, and so
\* does a deployApp that awaits it.
RunTestsThrows(t) ==
  /\ tasks[t].pc \in {"runAllTests", "healApp"}
  /\ tasks' = [tasks EXCEPT ![t].threw = TRUE, ![t].pc = "done"]
  /\ UNCHANGED <<frameworkConfig, calls, componentVars>>

\* deploy resolves with its record: deployApp awaits startMonitoring after a
\* success when enableRealTime is set, and emits app:deployed otherwise.
DeployDone(t) ==
  /\ tasks[t].pc = "deploy"
  /\ \E status \in DeploymentStatuses :
       tasks' = [tasks EXCEPT ![t].pc =
                   IF status = "success" /\ frameworkConfig.enableRealTime
                   THEN "startMonitoring" ELSE "done"]
  /\ UNCHANGED <<frameworkConfig, calls, componentVars>>

\* startMonitoring resolves and deployApp emits app:deployed.
StartMonitoringDone(t) ==
  /\ tasks[t].pc = "startMonitoring"
  /\ tasks' = [tasks EXCEPT ![t].pc = "done"]
  /\ UNCHANGED <<frameworkConfig, calls, componentVars>>

\* startMonitoring rejects and deployApp throws.
StartMonitoringThrows(t) ==
  /\ tasks[t].pc = "startMonitoring"
  /\ tasks' = [tasks EXCEPT ![t].threw = TRUE, ![t].pc = "done"]
  /\ UNCHANGED <<frameworkConfig, calls, componentVars>>

\* handleAppFixed, run by the emit of app:fixed: it awaits runTests for a
\* tested fix when unitTests is set. handleAppError ends when the emit
\* returns, so the slot goes on as the handler's runTests call.
handleAppFixed(fr, fix) ==
  IF RerunsTests(fix)
  THEN [runTests(fr.chain) EXCEPT !.keptTested = fix.applied /\ fix.tested, !.rerun = TRUE]
  ELSE [fr EXCEPT !.keptTested = fix.applied /\ fix.tested, !.pc = "done"]

\* fixError resolves: handleAppError emits app:fixed for a result that is not
\* null.
FixErrorDone(t) ==
  /\ tasks[t].pc = "fixError"
  /\ \E fix \in FixResults :
       tasks' = [tasks EXCEPT ![t] = IF fix.null THEN [@ EXCEPT !.pc = "done"]
                                     ELSE handleAppFixed(@, fix)]
  /\ UNCHANGED <<frameworkConfig, calls, componentVars>>

\* The call has ended and its slot is free again.
TaskReturns(t) ==
  /\ tasks[t].pc = "done"
  /\ tasks' = [tasks EXCEPT ![t] = NoTask]
  /\ UNCHANGED <<frameworkConfig, calls, componentVars>>

FrameworkNext ==
  \/ \E t \in TaskIds : RunTests(t)
  \/ \E t \in TaskIds : DeployApp(t)
  \/ \E t \in TaskIds : AppError(t)
  \/ \E t \in TaskIds : RunAllTestsDone(t)
  \/ \E t \in TaskIds : HealAppDone(t)
  \/ \E t \in TaskIds : RunTestsThrows(t)
  \/ \E t \in TaskIds : DeployDone(t)
  \/ \E t \in TaskIds : StartMonitoringDone(t)
  \/ \E t \in TaskIds : StartMonitoringThrows(t)
  \/ \E t \in TaskIds : FixErrorDone(t)
  \/ \E t \in TaskIds : TaskReturns(t)

\* ============================================================ specifications
\* The configuration src/unnamed/part_001 ships: each specification explores
\* one component and holds the other two in their state after construction
\* under this configuration.
DefaultHealing == [rollbackThreshold |-> 2]

DefaultDeployment == [provider |-> "docker", healthChecks |-> TRUE, rollbackOnFailure |-> TRUE]

DefaultTesting ==
  [unitTests |-> TRUE, integrationTests |-> TRUE, e2eTests |-> FALSE,
   performanceTesting |-> FALSE, accessibility |-> TRUE, visualRegression |-> FALSE]

DefaultFramework ==
  [autoFix |-> TRUE, unitTests |-> TRUE, integrationTests |-> TRUE,
   autoScale |-> FALSE, enableRealTime |-> TRUE]

HealIdle == HealInit /\ config = DefaultHealing

DeployIdle == DeployInit /\ deployment = DefaultDeployment

TestIdle == TestInit /\ testing = DefaultTesting

FrameworkIdle == FrameworkInit /\ frameworkConfig = DefaultFramework

vars == <<healVars, deployVars, testVars, loopVars, frameworkVars>>

\* The healing system, with calls of healApp and fixError in flight together.
Init == HealInit /\ DeployIdle /\ TestIdle /\ LoopInit /\ FrameworkIdle

Next == HealNext

Spec == Init /\ [][Next]_vars

\* The healing system and its loop, with one call in flight at a time.
LoopStart == HealInit /\ DeployIdle /\ TestIdle /\ LoopInit /\ FrameworkIdle

LoopSpec == LoopStart /\ [][LoopNext]_vars

\* The deployment manager, with deploy calls in flight together.
DeployStart == HealIdle /\ DeployInit /\ TestIdle /\ LoopInit /\ FrameworkIdle

DeploySpec == DeployStart /\ [][DeployNext]_vars

\* The testing engine: runAllTests calls one after the other.
TestStart == HealIdle /\ DeployIdle /\ TestInit /\ LoopInit /\ FrameworkIdle

TestSpec == TestStart /\ [][TestNext]_vars

\* The framework's handlers, with the components behind them at rest.
FrameworkStart == HealIdle /\ DeployIdle /\ TestIdle /\ LoopInit /\ FrameworkInit

FrameworkSpec == FrameworkStart /\ [][FrameworkNext]_vars

\* ================================================================ properties
\* Positions of a call inside fixError's backup, apply, validate and restore
\* steps.
FixSteps ==
  {"cb_ensureDir", "cb_copy", "cb_listFiles", "generateFix", "applyFix",
   "testFix", "rb_pathExists", "rb_remove", "rb_copy"}

InSweepFix(c) == call[c].entry = "healApp" /\ call[c].pc \in FixSteps

\* The error a call's fixError is working on, or has just returned for.
CurrentError(c) == call[c].errors[call[c].idx]

\* C1: for one application, at most one healApp sweep is inside the backup,
\* apply, validate and restore steps at a time: a second healApp call made
\* while a sweep is running is rejected or waits. healApp takes no lock and
\* keeps no per-application flag, so two sweeps run these steps interleaved.
C1_OneSweepInFlight == Cardinality({c \in Callers : InSweepFix(c)}) <= 1

\* C2: when the fix was applied, validation returned false and
\* rollbackThreshold > 0, the step on which fixError returns leaves the working
\* tree equal to the tree as it was immediately before the fix was applied,
\* and the returned fix has applied = false. A second call that changes the
\* tree between this call's backup and its apply (C1), or a second backup
\* written into the same backup directory (C27), breaks the equality.
C2_RollbackCorrectness ==
  [][\A c \in Callers :
       (RollbackCopyDone(c) /\ call[c].restoring = "test")
         => /\ appDir' = call[c].treeAtApply
            /\ call'[c].ret = "fix"
            /\ ~call'[c].applied]_vars

\* C3: a healApp sweep calls fixError only for errors of severity critical
\* or high, and every error of severity medium or low of the sweep has
\* fix_attempted = false and fix_successful = false, up to and including the
\* end of the sweep.
C3_SeverityGate ==
  \A c \in Callers :
    call[c].entry = "healApp" =>
      /\ call[c].pc \in FixSteps \cup {"returned"}
           => CurrentError(c).severity \in {"critical", "high"}
      /\ \A i \in 1..Len(call[c].errors) :
           call[c].errors[i].severity \in {"medium", "low"}
             => ~call[c].errors[i].fix_attempted /\ ~call[c].errors[i].fix_successful

\* A sweep has ended whose queue held a medium error, left alone, and a
\* critical or high error, whose fix was kept.
C3_Witness ==
  \E c \in Callers :
    /\ call[c].entry = "healApp" /\ call[c].pc = "healReturned"
    /\ \E i, j \in 1..Len(call[c].errors) :
         /\ call[c].errors[i].severity = "medium"
         /\ call[c].errors[j].severity \in {"critical", "high"}
         /\ call[c].errors[j].fix_attempted

\* fixError has returned after generateFix produced no fix.
NoFixReturned(c) == call[c].pc = "returned" /\ call[c].synthesized = "null"

\* C4, as the code has it: when generateFix returns null, fixError returns
\* null and leaves the error with fix_attempted = false and
\* fix_successful = false; the backup taken at the start of the call has been
\* created by then and is in the application's backup history.
C4_NoFixKeepsBackup ==
  \A c \in Callers :
    NoFixReturned(c) =>
      /\ call[c].ret = "null"
      /\ ~CurrentError(c).fix_attempted /\ ~CurrentError(c).fix_successful
      /\ call[c].backedUp
      /\ \E j \in 1..Len(backupHistory) : backupHistory[j].backup_id = call[c].backup_id

C4_Witness == \E c \in Callers : NoFixReturned(c) /\ Len(backupHistory) = 1

\* C4, as the specification states it: when generateFix returns null, fixError
\* returns null with both flags false and has created no backup, the backup
\* history being as it was before the call.
C4_NoBackupCreated ==
  \A c \in Callers :
    NoFixReturned(c) =>
      /\ call[c].ret = "null"
      /\ ~CurrentError(c).fix_attempted /\ ~CurrentError(c).fix_successful
      /\ ~call[c].backedUp

\* fixError has returned after a fix was produced, applied and validated.
ValidatedFixReturned(c) ==
  /\ call[c].pc = "returned" /\ call[c].synthesized = "fix"
  /\ call[c].success /\ call[c].testPassed

\* C5: when generateFix returns a fix, applyFix succeeds and testFix returns
\* true, fixError returns the fix with applied = true and tested = true, the
\* error has fix_attempted = true and fix_successful = true, and the call has
\* restored no backup.
C5_ValidatedFixKept ==
  \A c \in Callers :
    ValidatedFixReturned(c) =>
      /\ call[c].ret = "fix"
      /\ call[c].applied /\ call[c].tested
      /\ CurrentError(c).fix_attempted /\ CurrentError(c).fix_successful
      /\ call[c].restores = 0

\* A validated fix that changed the tree has been returned.
C5_Witness == \E c \in Callers : ValidatedFixReturned(c) /\ appDir # call[c].treeAtApply

\* C11: in every state, every error with fix_successful = true has
\* fix_attempted = true, whatever calls of healApp, fixError and emergencyHeal
\* came before.
C11_SucceededImpliesAttempted ==
  \A c \in Callers : \A i \in 1..Len(call[c].errors) :
    call[c].errors[i].fix_successful => call[c].errors[i].fix_attempted

C11_Witness ==
  \E c \in Callers : \E i \in 1..Len(call[c].errors) : call[c].errors[i].fix_successful

\* C12: fixError returns null or a fix and never throws, whatever threw inside
\* it, and a sweep that has ended has called fixError once for each critical
\* or high error of its queue.
C12_SweepSurvivesThrows ==
  \A c \in Callers :
    /\ call[c].pc = "returned" => call[c].ret \in {"null", "fix"}
    /\ (call[c].entry = "healApp" /\ call[c].pc = "healReturned")
         => call[c].fixCalls =
              Cardinality({i \in 1..Len(call[c].errors) :
                             call[c].errors[i].severity \in {"critical", "high"}})

\* A sweep over two critical or high errors has ended after fixError's catch
\* ran in it.
C12_Witness ==
  \E c \in Callers :
    /\ call[c].entry = "healApp" /\ call[c].pc = "healReturned"
    /\ call[c].fixCalls = 2 /\ call[c].caught >= 1

\* C13: when applying the fix fails, the step on which fixError returns has
\* restored the tree the attempt started from, and leaves the error with
\* fix_attempted = true and fix_successful = false. fixError returns null
\* after the rollback without touching the error's flags.
C13_ApplyFailureRestores ==
  [][\A c \in Callers :
       (RollbackCopyDone(c) /\ call[c].restoring = "apply")
         => /\ appDir' = call[c].treeAtBackup
            /\ call'[c].errors[call[c].idx].fix_attempted
            /\ ~call'[c].errors[call[c].idx].fix_successful]_vars

\* fixError has returned after the fix was applied and testFix returned false
\* with rollbackThreshold = 0.
UnvalidatedFixReturned(c) ==
  /\ call[c].pc = "returned" /\ call[c].synthesized = "fix"
  /\ call[c].success /\ ~call[c].testPassed
  /\ config.rollbackThreshold = 0

\* C14: when the fix was applied, testFix returned false and rollbackThreshold
\* is 0, fixError restores no backup and returns the fix with applied = true
\* and tested = false.
C14_ThresholdZeroKeepsFix ==
  \A c \in Callers :
    UnvalidatedFixReturned(c) =>
      /\ call[c].ret = "fix"
      /\ call[c].applied /\ ~call[c].tested
      /\ call[c].restoring = "none" /\ call[c].restores = 0

\* Such a fix has been returned and its change is in the tree.
C14_Witness ==
  \E c \in Callers : UnvalidatedFixReturned(c) /\ appDir # call[c].treeAtApply

\* fixError has returned a fix it kept: applied, and no backup restored.
KeptFixReturned(c) ==
  call[c].pc = "returned" /\ call[c].ret = "fix" /\ call[c].applied

\* C15, as the code has it: when fixError keeps a fix, the error has
\* fix_attempted = true and fix_successful equal to the validation result,
\* and exactly one fix:applied was emitted; on every other return of fixError
\* none was emitted.
C15_KeptFixNotifiesOnce ==
  \A c \in Callers :
    call[c].pc = "returned" =>
      IF KeptFixReturned(c)
      THEN /\ CurrentError(c).fix_attempted
           /\ CurrentError(c).fix_successful <=> call[c].testPassed
           /\ call[c].emitted = 1
      ELSE call[c].emitted = 0

\* A fix that failed validation has been kept and notified.
C15_Witness ==
  \E c \in Callers : KeptFixReturned(c) /\ ~call[c].testPassed /\ call[c].emitted = 1

\* C15, as the specification states it: when fixError keeps a fix, whatever
\* the validation result, the error has fix_attempted = true and
\* fix_successful = true and exactly one fix:applied was emitted; on every
\* other return none was emitted.
C15_KeptFixSucceeded ==
  \A c \in Callers :
    call[c].pc = "returned" =>
      IF KeptFixReturned(c)
      THEN /\ CurrentError(c).fix_attempted
           /\ CurrentError(c).fix_successful
           /\ call[c].emitted = 1
      ELSE call[c].emitted = 0

\* C16: a tick of the healing loop that fires while the system is running
\* and an error queue is not empty drains that queue: the tick empties it or
\* starts work on it. processAllHealingQueues has no body, so the tick leaves
\* the queue and every call as they were.
C16_TickDrainsQueue ==
  [][(Tick /\ isRunning /\ healingQueue # NoQueue)
       => (healingQueue' = NoQueue \/ call' # call)]_vars

\* C17: a tick that fires while the system is stopped does not go on to
\* processAllHealingQueues and touches no queue, call or tree, and stop()
\* leaves the calls in flight and the tree as they are.
C17_StoppedLoopIdle ==
  [][/\ (Tick /\ ~isRunning)
          => (ticks' = ticks /\ call' = call /\ healingQueue' = healingQueue
              /\ appDir' = appDir)
     /\ (Stop /\ isRunning) => (call' = call /\ appDir' = appDir)]_vars

\* The system was started, ran a tick and was stopped; a tick after the stop
\* cleared the interval, while a fix attempt is in flight.
C17_Witness ==
  /\ ticks >= 1 /\ ~isRunning /\ timers = 0
  /\ call["c1"].pc = "testFix"

\* C9: restoring the backup a call created leaves the working tree with
\* exactly the files and contents the tree had when the backup was created,
\* whatever changed in between. createBackup copies into a directory named
\* after the clock alone, over what an earlier backup of the same millisecond
\* left there, and rollback removes and copies in two steps with no lock.
C9_BackupRestoreRoundTrip ==
  [][\A c \in Callers : RollbackCopyDone(c) => appDir' = call[c].treeAtBackup]_vars

\* deploy has returned its record.
DeployReturned(d) == deployments[d].pc = "returned"

\* C6: the record deploy returns has status success, failed or rolled_back,
\* and rolled_back only when the deployment failed, rollbackOnFailure is set
\* and the environment is not development.
C6_TerminalStatus ==
  \A d \in Deployers :
    DeployReturned(d) =>
      /\ deployments[d].status \in {"success", "failed", "rolled_back"}
      /\ deployments[d].status = "rolled_back"
           => /\ deployments[d].fatal
              /\ deployment.rollbackOnFailure
              /\ deployments[d].environment # "development"

\* Both kinds of failed deployment have been returned: one rolled back, and
\* one in development left failed although rollbackOnFailure is set.
C6_Witness ==
  \E d, e \in Deployers :
    /\ DeployReturned(d) /\ deployments[d].status = "rolled_back"
    /\ DeployReturned(e) /\ deployments[e].status = "failed"
    /\ deployments[e].environment = "development"

\* deploy to production has returned after `npm run build` failed.
ProductionBuildFailed(d) ==
  /\ DeployReturned(d)
  /\ deployments[d].buildFailed
  /\ deployments[d].environment = "production"

\* C7, as the code has it: when the build fails in a production deploy, no
\* provider routine is invoked and a rollback is attempted exactly when
\* rollbackOnFailure is set; the returned status is rolled_back when it is
\* set and failed when it is not.
C7_BuildFailure ==
  \A d \in Deployers :
    ProductionBuildFailed(d) =>
      /\ ~deployments[d].providerInvoked
      /\ deployments[d].rollbackAttempted = deployment.rollbackOnFailure
      /\ deployments[d].status =
           IF deployment.rollbackOnFailure THEN "rolled_back" ELSE "failed"

C7_Witness ==
  \E d \in Deployers :
    ProductionBuildFailed(d) /\ deployment.rollbackOnFailure
    /\ deployments[d].status = "rolled_back"

\* C7, as the specification states it: when the build fails in a production
\* deploy, no provider routine is invoked, the returned status is failed, and
\* a rollback is attempted only if rollbackOnFailure is set.
C7_BuildFailureStatusFailed ==
  \A d \in Deployers :
    ProductionBuildFailed(d) =>
      /\ ~deployments[d].providerInvoked
      /\ deployments[d].status = "failed"
      /\ deployments[d].rollbackAttempted => deployment.rollbackOnFailure

\* C10: no two deployments of the application are in status pending or
\* deploying at the same time. deploy registers every call under a new
\* deployment id and looks at no other entry of activeDeployments.
C10_OneDeploymentInFlight ==
  Cardinality({d \in Deployers : deployments[d].status \in {"pending", "deploying"}}) <= 1

\* C8: every suite runAllTests returns has status passed exactly when every
\* case in it has status passed, and a failed suite holds at least one case
\* that is not passed. The catch blocks of runPerformanceTests,
\* runAccessibilityTests and runVisualRegressionTests set failed and add no
\* case.
C8_SuiteAggregation ==
  (run.pc = "returned" /\ ~run.threw) =>
    \A i \in 1..Len(run.testSuites) :
      /\ run.testSuites[i].status = "passed" <=> EveryPassed(run.testSuites[i].tests)
      /\ run.testSuites[i].status = "failed"
           => \E j \in 1..Len(run.testSuites[i].tests) : run.testSuites[i].tests[j] # "passed"

\* The categories whose run function starts the application and stops it with
\* appProcess.kill() that C18 is about.
AppCategories == {"integration", "e2e", "performance", "accessibility"}

\* The category of the suite runAllTests pushed last.
LastCategory(r) == r.testSuites[Len(r.testSuites)].category

\* C18: for the integration, e2e, performance and accessibility categories,
\* every application instance started is stopped by the time the category's
\* suite is returned to runAllTests, also when waitForServer timed out or the
\* checks threw. unit starts no application and visual runs last, so an
\* instance still running when one of these suites is pushed was started by
\* one of these categories. The code calls appProcess.kill() at the end of
\* the try block only.
C18_AppStoppedBeforeSuiteReturned ==
  [][(/\ Len(run'.testSuites) = Len(run.testSuites) + 1
      /\ LastCategory(run') \in AppCategories)
     => run'.apps = 0]_vars

\* The categories runAllTests runs under the configuration, in its order.
EnabledCategories == SelectSeq(Categories, LAMBDA category : testing[TestingFlags[category]])

SuiteCategories(suites) == [i \in 1..Len(suites) |-> suites[i].category]

\* C19: whatever the six flags are and however the categories end,
\* runAllTests returns, without throwing, one suite for each enabled category
\* and none for a disabled one, in the order unit, integration, e2e,
\* performance, accessibility, visual. The await on cleanup in the finally
\* block rejects when browser.close does, and runAllTests rejects with it.
C19_OneSuitePerEnabledCategory ==
  run.pc = "returned" =>
    /\ ~run.threw
    /\ SuiteCategories(run.testSuites) = EnabledCategories

\* A deploy call has returned after waitForApplication timed out or a health
\* check endpoint failed.
PostCheckFailed(d) ==
  /\ deployments[d].pc = "returned"
  /\ deployments[d].startupTimedOut \/ deployments[d].healthFailed

\* C20: after the provider's routine, a startup timeout or a failing health
\* check aborts the deployment only in production; in development and staging
\* the deployment still ends with status success. waitForApplication throws
\* in every environment, and runHealthChecks throws in none.
C20_PostCheckFailureAbortsOnlyInProduction ==
  \A d \in Deployers :
    PostCheckFailed(d) =>
      (deployments[d].status = "success" <=> deployments[d].environment # "production")

\* A deploy call has returned after the smoke test script failed.
SmokeFailedReturned(d) ==
  /\ deployments[d].pc = "returned"
  /\ deployments[d].smokeFailed

\* C21: a failing smoke test makes the deployment fail only in production:
\* there the deployment ends failed or rolled_back, and in development and
\* staging it ends with status success.
C21_SmokeFailureFatalOnlyInProduction ==
  \A d \in Deployers :
    SmokeFailedReturned(d) =>
      (deployments[d].status = "success" <=> deployments[d].environment # "production")

\* A staging deployment whose smoke test failed has returned with success,
\* and a production one has returned without it.
C21_Witness ==
  /\ SmokeFailedReturned("d1") /\ deployments["d1"].environment = "staging"
  /\ deployments["d1"].status = "success"
  /\ SmokeFailedReturned("d2") /\ deployments["d2"].environment = "production"
  /\ deployments["d2"].status # "success"

\* Sequence s is a prefix of sequence t.
IsPrefix(s, t) == Len(s) <= Len(t) /\ SubSeq(t, 1, Len(s)) = s

\* A step of a deploy call that is still the same call after the step.
SameDeploy(d) == deployments[d].pc # "idle" /\ deployments'[d].pc # "idle"

\* C22: during a deploy call the record's log only grows, each step's lines
\* being appended after those already there, and on every outcome the
\* duration is stamped after the last status change and before deploy
\* returns: once it is stamped the status stays, and a returned record has it.
C22_LogGrowsDurationStampedLast ==
  /\ [][\A d \in Deployers :
          SameDeploy(d) => IsPrefix(deployments[d].logs, deployments'[d].logs)]_vars
  /\ [][\A d \in Deployers :
          (SameDeploy(d) /\ deployments[d].durationStamped)
            => /\ deployments'[d].status = deployments[d].status
               /\ deployments'[d].durationStamped]_vars
  /\ [](\A d \in Deployers :
          deployments[d].pc = "returned"
            => /\ deployments[d].durationStamped
               /\ deployments[d].status \in {"success", "failed", "rolled_back"})

\* Both deploy calls have returned with a stamped duration and a log that
\* ends with the line of the last step, one with success and one rolled back.
C22_Witness ==
  /\ deployments["d1"].pc = "returned" /\ deployments["d1"].status = "success"
  /\ deployments["d1"].durationStamped
  /\ deployments["d1"].logs[Len(deployments["d1"].logs)] = "Deployment completed successfully"
  /\ deployments["d2"].pc = "returned" /\ deployments["d2"].status = "rolled_back"
  /\ deployments["d2"].durationStamped
  /\ deployments["d2"].logs[Len(deployments["d2"].logs)] = "Rollback completed"

\* C23: restoring a backup is atomic for the caller: when a step of rollback
\* fails, the working tree is left exactly as it was when the restore began
\* or exactly as the backup, never missing or partly overwritten. rollback
\* awaits fs.remove(appDir) and then fs.copy(backupDir, appDir): when the copy
\* fails the tree has been removed and nothing stands in its place.
C23_RestoreAtomic ==
  [][\A c \in Callers :
       RollbackFails(c)
         => \/ appDir' = call[c].treeAtRestore
            \/ appDir' = fsCopy(backupDirs[call[c].backup_id], NoDir)]_vars

\* A healApp sweep has ended and left an error of its list unresolved.
SweepEndedUnresolved(c) ==
  /\ call[c].entry = "healApp" /\ call[c].pc = "healReturned"
  /\ \E i \in 1..Len(call[c].errors) : ~call[c].errors[i].fix_successful

\* C24: after a healApp sweep ends, every error it did not resolve (medium
\* and low ones, and critical or high ones for which no fix was kept) is
\* still in the application's queue entry. processHealingQueue deletes the
\* whole entry when its loop ends.
C24_UnresolvedErrorsStayQueued ==
  \A c \in Callers : SweepEndedUnresolved(c) => healingQueue = c

\* C27: every backup creation returns an id that differs from every id
\* already in the application's backup history, also within one clock
\* millisecond, and appends exactly one entry to the end of the history,
\* which never shrinks or reorders. The id is `backup-${Date.now()}` and
\* nothing else, so two backups of one millisecond share it.
C27_BackupIdsFresh ==
  [][\A c \in Callers :
       (ListFilesDone(c) /\ appDir.exists)
         => /\ \A i \in 1..Len(backupHistory) :
                 backupHistory[i].backup_id # call[c].backup_id
            /\ backupHistory' = Append(backupHistory, RollbackInfo(call[c].backup_id))]_vars

\* handleAppError emits app:fixed: its fixError call, made for an error that
\* is not of low severity, has returned a fix and not null.
AppFixedEmitted(c) ==
  /\ call[c].entry = "fixError" /\ call[c].pc = "returned"
  /\ CurrentError(c).severity # "low"
  /\ call[c].ret = "fix"

\* C29: every app:fixed event carries a fix with applied = true, and none is
\* emitted for a fix whose changes were rolled back after a failed
\* validation. fixError returns the fix, with applied = false, after that
\* rollback, and handleAppError tests only that the result is not null.
C29_AppFixedOnlyForAppliedFix ==
  \A c \in Callers : AppFixedEmitted(c) => (call[c].applied /\ call[c].restores = 0)

\* C30: after any sequence of start() and stop() calls, also a stop()
\* followed by a start() before the next tick, at most one healing-loop
\* interval is set, and none is left once the system is stopped and a tick
\* has fired. stop() only clears the flag: the interval is cleared by its own
\* next tick, and only if the flag is still clear by then.
C30_AtMostOneTimer ==
  [][/\ timers' <= 1
     /\ (Tick /\ ~isRunning) => timers' = 0]_vars

\* C25: every fix the healing system keeps as applied and tested, from a
\* healApp sweep or from a single fixError call, makes the framework run the
\* application's tests again: by the time the call that produced the fix has
\* ended, handleAppFixed has called runTests for it. The healing system
\* emits fix:applied on itself, where nothing listens; app:fixed is emitted
\* by handleAppError only, and handleAppFixed tests unitTests.
C25_KeptFixRerunsTests ==
  \A t \in TaskIds :
    (tasks[t].pc = "done" /\ tasks[t].keptTested) => tasks[t].rerun

\* C26: deployApp starts the deployment only when its test run passed: a
\* deployApp call whose runAllTests reported a failed suite does not reach
\* deploy. deployApp awaits runTests, which returns nothing, and goes on.
C26_NoDeployAfterFailedTests ==
  \A t \in TaskIds :
    (tasks[t].kind = "deployApp" /\ tasks[t].pc = "deploy") => ~tasks[t].hasFailures

\* C28: a runTests or deployApp call is followed by a bounded chain of work:
\* the staging deployment handleTestCompleted starts does not lead to a
\* test:completed event that starts a further one. deployApp runs the tests
\* itself, so with autoScale set every passing run starts the next
\* deployment.
C28_OneAutomaticDeployment ==
  \A t \in TaskIds : tasks[t].chain <= 1

====
